---- MODULE Spec2Model ----
(***************************************************************************)
(* Model of streamlit_app.py: resize_image, process_folder and main.       *)
(*                                                                         *)
(* Text (file names, method names, download names) is a sequence of        *)
(* one-character strings, so that lower(), endswith(), replace() and the   *)
(* f-string concatenations are computed, not assumed.                      *)
(*                                                                         *)
(* A scale factor is the rational num / ScaleDen and is carried as its     *)
(* numerator num.  With ScaleDen a power of two the product                *)
(* width * scale_factor is exact in binary floating point, so int(...) of  *)
(* it is the truncated exact quotient.                                     *)
(*                                                                         *)
(* PIL Image objects live in a per-run heap (a sequence; an object's id is *)
(* its index).  Exceptions are records with a raised flag.                 *)
(***************************************************************************)
EXTENDS Integers, Sequences, FiniteSets

VARIABLES scale_factor, input_method, uploaded_file, folder_path, listing, out, call

vars == <<scale_factor, input_method, uploaded_file, folder_path, listing, out, call>>

-----------------------------------------------------------------------------
(* Bounds *)

\* largest width and height of an image handed to resize_image directly
MaxDim == 3
\* largest scale numerator handed to resize_image directly (scale MaxScaleNum / ScaleDen)
MaxScaleNum == 5
\* largest number of entries in the listed directory
MaxFiles == 2

(* Program constants *)

\* the slider moves in steps of 0.5 = 1 / ScaleDen
ScaleDen == 2
\* slider min_value = 1.0, max_value = 4.0, value = 2.0, as numerators over ScaleDen
SliderMin == 2
SliderMax == 8
SliderDefault == 4

-----------------------------------------------------------------------------
(* Text *)

UpperCase == <<"A","B","C","D","E","F","G","H","I","J","K","L","M",
               "N","O","P","Q","R","S","T","U","V","W","X","Y","Z">>
LowerCase == <<"a","b","c","d","e","f","g","h","i","j","k","l","m",
               "n","o","p","q","r","s","t","u","v","w","x","y","z">>

\* str.lower() on one character
LowerChar(c) ==
    IF \E i \in 1..Len(UpperCase) : UpperCase[i] = c
    THEN LowerCase[CHOOSE i \in 1..Len(UpperCase) : UpperCase[i] = c]
    ELSE c

\* str.lower()
Lower(s) == [i \in 1..Len(s) |-> LowerChar(s[i])]

\* str.replace(" ", "_")
ReplaceSpace(s) == [i \in 1..Len(s) |-> IF s[i] = " " THEN "_" ELSE s[i]]

\* str.endswith(ext)
EndsWith(s, ext) ==
    /\ Len(ext) <= Len(s)
    /\ SubSeq(s, Len(s) - Len(ext) + 1, Len(s)) = ext

-----------------------------------------------------------------------------
(* resize_image *)

\* int(x) of the exact quotient a / d, d > 0: truncation toward zero
IntTrunc(a, d) == IF a >= 0 THEN a \div d ELSE 0 - ((0 - a) \div d)

\* np.array(image): a fresh array holding the image's pixels; shape is (h, w[, c])
NpArray(image) == image

\* img_array.shape[:2]
Shape(img_array) == <<img_array.h, img_array.w>>

\* faulty variant: the shape unpacked as (width, height)
TargetSizeSwapped(img_array, num) ==
    [new_width  |-> IntTrunc(Shape(img_array)[1] * num, ScaleDen),
     new_height |-> IntTrunc(Shape(img_array)[2] * num, ScaleDen)]

\* faulty variant: the target size clamped to at least one pixel
TargetSizeClamped(img_array, num) ==
    LET nw == IntTrunc(Shape(img_array)[2] * num, ScaleDen)
        nh == IntTrunc(Shape(img_array)[1] * num, ScaleDen)
    IN [new_width  |-> IF nw < 1 THEN 1 ELSE nw,
        new_height |-> IF nh < 1 THEN 1 ELSE nh]

\* height, width = shape[:2]; new_width = int(width * s); new_height = int(height * s)
TargetSize(img_array, num) ==
    LET height == Shape(img_array)[1]
        width  == Shape(img_array)[2]
    IN [new_width  |-> IntTrunc(width * num, ScaleDen),
        new_height |-> IntTrunc(height * num, ScaleDen)]

\* faulty variant: 'Lanczos' entered under the key 'Bicubic'
methodsDuplicateKey ==
    << [name |-> <<"N","e","a","r","e","s","t"," ","N","e","i","g","h","b","o","r">>, method |-> 0],
       [name |-> <<"B","i","l","i","n","e","a","r">>, method |-> 1],
       [name |-> <<"B","i","c","u","b","i","c">>, method |-> 2],
       [name |-> <<"B","i","c","u","b","i","c">>, method |-> 4] >>

\* the methods dict in insertion order; method is the cv2 flag
\* (INTER_NEAREST = 0, INTER_LINEAR = 1, INTER_CUBIC = 2, INTER_LANCZOS4 = 4)
methods ==
    << [name |-> <<"N","e","a","r","e","s","t"," ","N","e","i","g","h","b","o","r">>, method |-> 0],
       [name |-> <<"B","i","l","i","n","e","a","r">>, method |-> 1],
       [name |-> <<"B","i","c","u","b","i","c">>, method |-> 2],
       [name |-> <<"L","a","n","c","z","o","s">>, method |-> 4] >>

\* d[key] = value on a dict kept as a sequence of items in insertion order
DictSet(d, key, value) ==
    IF \E i \in 1..Len(d) : d[i].name = key
    THEN [i \in 1..Len(d) |-> IF d[i].name = key THEN [name |-> key, img |-> value] ELSE d[i]]
    ELSE Append(d, [name |-> key, img |-> value])

\* cv2.resize(img_array, (new_width, new_height), interpolation=method):
\* raises on an empty dsize and on pixel data the interpolation does not accept;
\* otherwise a fresh array of exactly the requested size
CvResize(img_array, new_width, new_height, method) ==
    IF new_width <= 0 \/ new_height <= 0 \/ method \in img_array.bad
    THEN [raised |-> TRUE, array |-> img_array]
    ELSE [raised |-> FALSE,
          array  |-> [img_array EXCEPT !.w = new_width, !.h = new_height, !.via = method]]

\* Image.fromarray(resized): a new Image over the array
ImageFromarray(array) == array

RECURSIVE ResizeLoopPartial(_, _, _, _, _, _)
\* faulty variant: a failing method is skipped and the other results are returned
ResizeLoopPartial(heap, src, new_width, new_height, k, resized_images) ==
    IF k > Len(methods)
    THEN [raised |-> FALSE, heap |-> heap, value |-> resized_images]
    ELSE LET r == CvResize(NpArray(heap[src]), new_width, new_height, methods[k].method)
             heap2 == Append(heap, ImageFromarray(r.array))
         IN IF r.raised
            THEN ResizeLoopPartial(heap, src, new_width, new_height, k + 1, resized_images)
            ELSE ResizeLoopPartial(heap2, src, new_width, new_height, k + 1,
                                   DictSet(resized_images, methods[k].name, Len(heap2)))

RECURSIVE ResizeLoopInPlace(_, _, _, _, _, _)
\* faulty variant: the resize is done in place on the input image
ResizeLoopInPlace(heap, src, new_width, new_height, k, resized_images) ==
    IF k > Len(methods)
    THEN [raised |-> FALSE, heap |-> heap, value |-> resized_images]
    ELSE LET r == CvResize(NpArray(heap[src]), new_width, new_height, methods[k].method)
             heap2 == [heap EXCEPT ![src] = ImageFromarray(r.array)]
         IN IF r.raised
            THEN [raised |-> TRUE, heap |-> heap, value |-> <<>>]
            ELSE ResizeLoopInPlace(heap2, src, new_width, new_height, k + 1,
                                   DictSet(resized_images, methods[k].name, src))

RECURSIVE ResizeLoop(_, _, _, _, _, _)
\* for name, method in methods.items(): resized = cv2.resize(...);
\* resized_images[name] = Image.fromarray(resized).  An exception of cv2.resize
\* leaves the loop and the function; the partly filled dict is dropped.
ResizeLoop(heap, src, new_width, new_height, k, resized_images) ==
    IF k > Len(methods)
    THEN [raised |-> FALSE, heap |-> heap, value |-> resized_images]
    ELSE LET r == CvResize(NpArray(heap[src]), new_width, new_height, methods[k].method)
             heap2 == Append(heap, ImageFromarray(r.array))
         IN IF r.raised
            THEN [raised |-> TRUE, heap |-> heap, value |-> <<>>]
            ELSE ResizeLoop(heap2, src, new_width, new_height, k + 1,
                            DictSet(resized_images, methods[k].name, Len(heap2)))

\* resize_image(image, scale_factor), image the heap object src
ResizeImage(heap, src, num) ==
    LET size == TargetSize(NpArray(heap[src]), num)
    IN ResizeLoop(heap, src, size.new_width, size.new_height, 1, <<>>)

-----------------------------------------------------------------------------
(* Files, paths and the external calls of process_folder and main *)

\* What a file holds, as far as PIL, cv2 and the PNG encoder react to it:
\*   decodable  Image.open succeeds
\*   w, h       size of the decoded image
\*   bad        the cv2 interpolation flags for which cv2.resize raises on its pixels
\*   pngOk      the image's mode can be written as PNG (st.image and img.save succeed)
FileContent(id, decodable, w, h, bad, pngOk) ==
    [id |-> id, decodable |-> decodable, w |-> w, h |-> h, bad |-> bad, pngOk |-> pngOk]

Corrupt    == FileContent(1, FALSE, 0, 0, {}, FALSE)           \* not an image
Rgb        == FileContent(2, TRUE, 2, 1, {}, TRUE)             \* 8-bit RGB
Bilevel    == FileContent(3, TRUE, 1, 1, {0, 1, 2, 4}, TRUE)   \* mode "1": bool array
Int32      == FileContent(4, TRUE, 1, 2, {1, 2, 4}, TRUE)      \* mode "I": nearest only
LanczosOom == FileContent(5, TRUE, 2, 2, {4}, TRUE)            \* the last resize fails
Float32    == FileContent(6, TRUE, 1, 1, {}, FALSE)            \* mode "F": no PNG

FileContents == {Corrupt, Rgb, Bilevel, Int32, LanczosOom, Float32}

\* uploaded_file is None
NoneFile == [name |-> <<>>, file |-> FileContent(0, FALSE, 0, 0, {}, FALSE)]

FileNames ==
    { <<"a",".","p","n","g">>, <<"B",".","J","P","G">>, <<"c",".","t","x","t">>,
      <<"j","p","e","g">> }

DirEntries == [name : FileNames, file : FileContents]

\* the paths a user may type; "" is the empty text input
FilePath    == "/srv/a.png"
MissingPath == "/srv/none"
ImagesDir   == "/srv/images"
LockedDir   == "/srv/locked"
FolderPaths == {"", FilePath, MissingPath, ImagesDir, LockedDir}

\* faulty variant: os.path.exists in place of os.path.isdir
OsPathExists(path) == path \in {FilePath, ImagesDir, LockedDir}

\* os.path.isdir(folder_path)
OsPathIsdir(path) == path \in {ImagesDir, LockedDir}

\* an empty run: nothing allocated, nothing shown, no file touched
EmptyRun == [heap |-> <<>>, ui |-> <<>>, opened |-> <<>>, listed |-> 0]

\* os.listdir(folder_path): the names in the directory, or an OSError
OsListdir(rs, path, dir) ==
    LET rs2 == [rs EXCEPT !.listed = @ + 1]
    IN IF path = ImagesDir
       THEN [raised |-> FALSE, rs |-> rs2, value |-> dir]
       ELSE [raised |-> TRUE, rs |-> rs2, value |-> <<>>]

\* Image.open(f): a new Image object on the heap, or UnidentifiedImageError
ImageOpen(rs, entry) ==
    LET rs2 == [rs EXCEPT !.opened = Append(@, entry.name)]
        image == [w |-> entry.file.w, h |-> entry.file.h, src |-> entry.file.id,
                  via |-> 0 - 1, bad |-> entry.file.bad, pngOk |-> entry.file.pngOk]
    IN IF entry.file.decodable
       THEN [raised |-> FALSE, rs |-> [rs2 EXCEPT !.heap = Append(@, image)],
             value |-> Len(rs2.heap) + 1]
       ELSE [raised |-> TRUE, rs |-> rs2, value |-> 0]

\* one element written to the page
Element(kind, tag, subject, img, file_name) ==
    [kind |-> kind, tag |-> tag, subject |-> subject, img |-> img, file_name |-> file_name]

Emit(rs, el) == [rs EXCEPT !.ui = Append(@, el)]

\* st.error(message)
StError(rs, tag, subject) == Emit(rs, Element("error", tag, subject, 0, <<>>))

\* st.subheader(text)
StSubheader(rs, tag, subject) == Emit(rs, Element("subheader", tag, subject, 0, <<>>))

\* st.image(img, caption=...): the image is encoded for the browser, which raises
\* for a mode PNG cannot hold
StImage(rs, img, tag, subject) ==
    IF rs.heap[img].pngOk
    THEN [raised |-> FALSE, rs |-> Emit(rs, Element("image", tag, subject, img, <<>>))]
    ELSE [raised |-> TRUE, rs |-> rs]

\* img.save(byte_io, format='PNG')
ImgSave(rs, img) == [raised |-> ~ rs.heap[img].pngOk, rs |-> rs]

\* st.download_button(label=..., data=byte_io, file_name=..., mime='image/png')
StDownloadButton(rs, img, tag, subject, file_name) ==
    Emit(rs, Element("download", tag, subject, img, file_name))

-----------------------------------------------------------------------------
(* process_folder *)

supported_extensions ==
    << <<".","j","p","g">>, <<".","j","p","e","g">>, <<".","p","n","g">>,
       <<".","b","m","p">>, <<".","w","e","b","p">> >>

\* faulty variant: the suffix test without lower()
HasSupportedExtCaseSensitive(filename) ==
    \E i \in 1..Len(supported_extensions) : EndsWith(filename, supported_extensions[i])

\* any(filename.lower().endswith(ext) for ext in supported_extensions)
HasSupportedExt(filename) ==
    \E i \in 1..Len(supported_extensions) :
        EndsWith(Lower(filename), supported_extensions[i])

RECURSIVE ProcessFolderLoop(_, _, _, _, _)
\* for filename in os.listdir(folder_path): the suffix filter, then
\* try: Image.open, resize_image, append  except: st.error
ProcessFolderLoop(rs, dir, i, num, resized_results) ==
    IF i > Len(dir)
    THEN [rs |-> rs, value |-> resized_results]
    ELSE IF ~ HasSupportedExt(dir[i].name)
    THEN ProcessFolderLoop(rs, dir, i + 1, num, resized_results)
    ELSE LET o   == ImageOpen(rs, dir[i])
             r   == ResizeImage(o.rs.heap, o.value, num)
             rs3 == [o.rs EXCEPT !.heap = r.heap]
         IN IF o.raised
            THEN ProcessFolderLoop(StError(o.rs, "Failed to process", dir[i].name),
                                   dir, i + 1, num, resized_results)
            ELSE IF r.raised
            THEN ProcessFolderLoop(StError(rs3, "Failed to process", dir[i].name),
                                   dir, i + 1, num, resized_results)
            ELSE ProcessFolderLoop(rs3, dir, i + 1, num,
                     Append(resized_results,
                            [filename |-> dir[i].name, resized_images |-> r.value]))

\* process_folder(folder_path, scale_factor); dir is what the directory holds
ProcessFolder(rs, path, num, dir) ==
    LET l == OsListdir(rs, path, dir)
        p == ProcessFolderLoop(l.rs, l.value, 1, num, <<>>)
    IN IF l.raised
       THEN [raised |-> TRUE, rs |-> l.rs, value |-> <<>>]
       ELSE [raised |-> FALSE, rs |-> p.rs, value |-> p.value]

-----------------------------------------------------------------------------
(* main *)

\* f'...resized_{name.lower().replace(" ", "_")}.png' after the given stem
DownloadName(stem, name) ==
    stem \o ReplaceSpace(Lower(name)) \o <<".","p","n","g">>

\* the stem of the file-upload variant: 'resized_'
UploadStem == <<"r","e","s","i","z","e","d","_">>

\* the stem of the folder variant: f'{filename}_resized_'
FolderStem(filename) == filename \o <<"_","r","e","s","i","z","e","d","_">>

RECURSIVE DisplayLoop(_, _, _)
\* for name, img in resized_images.items(): st.image(img, caption=...)
DisplayLoop(rs, resized_images, k) ==
    IF k > Len(resized_images)
    THEN [raised |-> FALSE, rs |-> rs]
    ELSE LET s == StImage(rs, resized_images[k].img, "caption", resized_images[k].name)
         IN IF s.raised
            THEN [raised |-> TRUE, rs |-> s.rs]
            ELSE DisplayLoop(s.rs, resized_images, k + 1)

RECURSIVE DownloadLoop(_, _, _, _)
\* for name, img in resized_images.items(): img.save(...); st.download_button(...)
DownloadLoop(rs, resized_images, k, stem) ==
    IF k > Len(resized_images)
    THEN [raised |-> FALSE, rs |-> rs]
    ELSE LET s == ImgSave(rs, resized_images[k].img)
         IN IF s.raised
            THEN [raised |-> TRUE, rs |-> s.rs]
            ELSE DownloadLoop(
                     StDownloadButton(s.rs, resized_images[k].img, "Download",
                                      resized_images[k].name,
                                      DownloadName(stem, resized_images[k].name)),
                     resized_images, k + 1, stem)

\* the two subheaders and the two loops over one image's results
ShowResized(rs, resized_images, subject, stem) ==
    LET d == DisplayLoop(StSubheader(rs, "Resized Images", subject), resized_images, 1)
        w == DownloadLoop(StSubheader(d.rs, "Download Resized Images", subject),
                          resized_images, 1, stem)
    IN IF d.raised THEN [raised |-> TRUE, rs |-> d.rs] ELSE w

\* what a run of main leaves: the page, the objects, the files touched, whether an
\* exception left main, and the mappings main received
Outcome(rs, escaped, results) ==
    [ui |-> rs.ui, heap |-> rs.heap, opened |-> rs.opened, listed |-> rs.listed,
     escaped |-> escaped, results |-> results]

\* st.title, the sidebar headers (the slider and the radio are inputs)
MainHead ==
    Emit(Emit(Emit(EmptyRun, Element("title", "Image Resizer", <<>>, 0, <<>>)),
              Element("sidebar.header", "Resize Settings", <<>>, 0, <<>>)),
         Element("sidebar.header", "Choose Input Method", <<>>, 0, <<>>))

\* the 'File Upload' branch: Image.open and the st.image of the original stand
\* before the try
MainUpload(rs, file, num) ==
    LET o   == ImageOpen(rs, file)
        si  == StImage(StSubheader(o.rs, "Original Image", <<>>), o.value,
                       "Original Size", <<>>)
        r   == ResizeImage(si.rs.heap, o.value, num)
        rs3 == [si.rs EXCEPT !.heap = r.heap]
        sh  == ShowResized(rs3, r.value, <<>>, UploadStem)
        res == << [filename |-> file.name, resized_images |-> r.value] >>
    IN IF file = NoneFile THEN Outcome(rs, FALSE, <<>>)
       ELSE IF o.raised THEN Outcome(o.rs, TRUE, <<>>)
       ELSE IF si.raised THEN Outcome(si.rs, TRUE, <<>>)
       ELSE IF r.raised
       THEN Outcome(StError(rs3, "Error processing image", <<>>), FALSE, <<>>)
       ELSE IF sh.raised
       THEN Outcome(StError(sh.rs, "Error processing image", <<>>), FALSE, res)
       ELSE Outcome(sh.rs, FALSE, res)

RECURSIVE ShowFolderResults(_, _, _)
\* for filename, resized_images in results: show and offer each
ShowFolderResults(rs, results, i) ==
    IF i > Len(results)
    THEN [raised |-> FALSE, rs |-> rs]
    ELSE LET sh == ShowResized(rs, results[i].resized_images, results[i].filename,
                               FolderStem(results[i].filename))
         IN IF sh.raised
            THEN [raised |-> TRUE, rs |-> sh.rs]
            ELSE ShowFolderResults(sh.rs, results, i + 1)

\* the 'Folder Upload' branch
MainFolder(rs, path, num, dir) ==
    LET pf == ProcessFolder(rs, path, num, dir)
        sh == ShowFolderResults(pf.rs, pf.value, 1)
    IN IF path = "" THEN Outcome(rs, FALSE, <<>>)
       ELSE IF ~ OsPathIsdir(path)
       THEN Outcome(StError(rs, "Invalid folder path", <<>>), FALSE, <<>>)
       ELSE IF pf.raised
       THEN Outcome(StError(pf.rs, "Error processing folder", <<>>), FALSE, <<>>)
       ELSE IF sh.raised
       THEN Outcome(StError(sh.rs, "Error processing folder", <<>>), FALSE, pf.value)
       ELSE Outcome(sh.rs, FALSE, pf.value)

\* main(): one run of the page on the widgets' values and the directory's content
Main(num, method, file, path, dir) ==
    IF method = "File Upload"
    THEN MainUpload(MainHead, file, num)
    ELSE MainFolder(MainHead, path, num, dir)

-----------------------------------------------------------------------------
(* The page: every interaction reruns main *)

\* the values the slider offers: 1.0, 1.5, ..., 4.0
SliderValues == SliderMin..SliderMax

InputMethods == {"File Upload", "Folder Upload"}

\* the uploader offers only files whose extension is one of its types
UploaderAccepts(name) == HasSupportedExt(name)

Uploads == {e \in DirEntries : UploaderAccepts(e.name)}

\* the page rerun on the given inputs
Rerun(num, method, file, path, dir) ==
    /\ scale_factor' = num
    /\ input_method' = method
    /\ uploaded_file' = file
    /\ folder_path' = path
    /\ listing' = dir
    /\ out' = Main(num, method, file, path, dir)
    /\ UNCHANGED call

\* no direct call of resize_image has been made
NoCall ==
    [made |-> FALSE, image |-> NoneFile.file, num |-> 0, raised |-> FALSE,
     heap |-> <<>>, value |-> <<>>]

Init ==
    /\ scale_factor = SliderDefault
    /\ input_method = "File Upload"
    /\ uploaded_file = NoneFile
    /\ folder_path = ""
    /\ listing = <<>>
    /\ out = Main(SliderDefault, "File Upload", NoneFile, "", <<>>)
    /\ call = NoCall

\* the slider is moved by one step (a longer move is a run of such steps, and a
\* run of main keeps nothing from the run before it)
SetScale ==
    \E num \in {scale_factor - 1, scale_factor + 1} \cap SliderValues :
        Rerun(num, input_method, uploaded_file, folder_path, listing)

\* the radio is switched; the widget of the other branch is not drawn in the run and
\* loses its value
SetInputMethod ==
    \E method \in InputMethods \ {input_method} :
        Rerun(scale_factor, method, NoneFile, "", <<>>)

\* a file is uploaded, replaced or removed
UploadFile ==
    /\ input_method = "File Upload"
    /\ \E file \in (Uploads \cup {NoneFile}) \ {uploaded_file} :
           Rerun(scale_factor, input_method, file, folder_path, listing)

\* a folder path is typed; listing is the content of ImagesDir while the page points
\* at it (main reads no directory otherwise), starting from an empty directory
EnterFolderPath ==
    /\ input_method = "Folder Upload"
    /\ \E path \in FolderPaths \ {folder_path} :
           Rerun(scale_factor, input_method, uploaded_file, path, <<>>)

\* a file appears in the listed directory and the page is rerun
DirAddEntry ==
    /\ input_method = "Folder Upload"
    /\ folder_path = ImagesDir
    /\ Len(listing) < MaxFiles
    /\ \E e \in DirEntries :
           /\ \A i \in 1..Len(listing) : listing[i].name # e.name
           /\ Rerun(scale_factor, input_method, uploaded_file, folder_path,
                    Append(listing, e))

\* the last listed file is deleted and the page is rerun
DirRemoveEntry ==
    /\ input_method = "Folder Upload"
    /\ folder_path = ImagesDir
    /\ Len(listing) > 0
    /\ Rerun(scale_factor, input_method, uploaded_file, folder_path,
             SubSeq(listing, 1, Len(listing) - 1))

Next ==
    \/ SetScale
    \/ SetInputMethod
    \/ UploadFile
    \/ EnterFolderPath
    \/ DirAddEntry
    \/ DirRemoveEntry

Spec == Init /\ [][Next]_vars

-----------------------------------------------------------------------------
(* resize_image called on its own, with any image and any scale factor *)

\* the failure profiles of cv2.resize: none, every flag, all but nearest, one flag
BadSets == { {}, {0, 1, 2, 4}, {1, 2, 4}, {2}, {4} }

\* scale factors -1/ScaleDen, 0, 1/ScaleDen, ..., MaxScaleNum/ScaleDen
ScaleNums == (0 - 1)..MaxScaleNum

\* resized_images = resize_image(image, num / ScaleDen) on a fresh image
CallResizeImage ==
    \E w \in 1..MaxDim, h \in 1..MaxDim, bad \in BadSets, num \in ScaleNums :
        LET image == [w |-> w, h |-> h, src |-> 0, via |-> 0 - 1, bad |-> bad,
                      pngOk |-> TRUE]
            r == ResizeImage(<<image>>, 1, num)
        IN /\ call' = [made |-> TRUE, image |-> image, num |-> num, raised |-> r.raised,
                       heap |-> r.heap, value |-> r.value]
           /\ UNCHANGED <<scale_factor, input_method, uploaded_file, folder_path,
                          listing, out>>

NextFn == CallResizeImage

SpecFn == Init /\ [][NextFn]_vars

-----------------------------------------------------------------------------
(* Properties of resize_image (checked under SpecFn) *)

\* n is the floor of a / d, for d > 0
IsFloor(n, a, d) == n * d <= a /\ a < (n + 1) * d

\* the images of the mapping the direct call returned
CallImages == [k \in 1..Len(call.value) |-> call.heap[call.value[k].img]]

\* C1: when resize_image returns for s > 0, every image of the mapping has width
\* floor(w * s) and height floor(h * s): one target size for all four entries
C1_TargetDimensions ==
    (call.made /\ ~ call.raised /\ call.num > 0) =>
        \A k \in 1..Len(CallImages) :
            /\ IsFloor(CallImages[k].w, call.image.w * call.num, ScaleDen)
            /\ IsFloor(CallImages[k].h, call.image.h * call.num, ScaleDen)

\* a call that returned four images for a non-square image and a scale factor whose
\* product with the width is not an integer
C1_Witness ==
    /\ call.made /\ ~ call.raised /\ Len(call.value) = 4
    /\ call.image.w # call.image.h
    /\ (call.image.w * call.num) % ScaleDen # 0

FourMethodNames ==
    { <<"N","e","a","r","e","s","t"," ","N","e","i","g","h","b","o","r">>,
      <<"B","i","l","i","n","e","a","r">>,
      <<"B","i","c","u","b","i","c">>,
      <<"L","a","n","c","z","o","s">> }

\* C2: whenever resize_image returns, the mapping has exactly the four keys
\* 'Nearest Neighbor', 'Bilinear', 'Bicubic', 'Lanczos'
C2_FourKeys ==
    (call.made /\ ~ call.raised) =>
        /\ Len(call.value) = 4
        /\ {call.value[k].name : k \in 1..Len(call.value)} = FourMethodNames

\* a call that returned, at a scale factor that is not a whole number
C2_Witness == call.made /\ ~ call.raised /\ call.num % ScaleDen # 0

\* C8: when floor(w * s) or floor(h * s) is not positive, resize_image raises and
\* returns no mapping; no image it returns has a zero width or height
C8_EmptyTargetFails ==
    call.made =>
        /\ (call.image.w * call.num < ScaleDen \/ call.image.h * call.num < ScaleDen)
               => (call.raised /\ call.value = <<>>)
        /\ \A k \in 1..Len(CallImages) : CallImages[k].w >= 1 /\ CallImages[k].h >= 1

\* a 1 x 1 image whose pixels every interpolation accepts, scaled by 1/ScaleDen
C8_Witness ==
    /\ call.made /\ call.raised
    /\ call.image.w = 1 /\ call.image.h = 1 /\ call.image.bad = {} /\ call.num = 1

-----------------------------------------------------------------------------
(* Properties of process_folder and main (checked under Spec) *)

UploadRun == input_method = "File Upload" /\ uploaded_file # NoneFile
FolderRun == input_method = "Folder Upload" /\ folder_path = ImagesDir

ExtensionSet ==
    { <<".","j","p","g">>, <<".","j","p","e","g">>, <<".","p","n","g">>,
      <<".","b","m","p">>, <<".","w","e","b","p">> }

\* the name, lowercased, ends with one of the five extensions
NameMatches(name) ==
    \E k \in 1..Len(name) : Lower(SubSeq(name, k, Len(name))) \in ExtensionSet

EntryMatches(e) == NameMatches(e.name)

\* the files the run has to attempt: the upload, or the matching directory entries
Batch ==
    IF UploadRun THEN <<uploaded_file>>
    ELSE IF FolderRun THEN SelectSeq(listing, EntryMatches)
    ELSE <<>>

\* the file opens, and every one of the four resizes of it succeeds
Resizable(e) == e.file.decodable /\ e.file.bad = {}

NamesOf(entries) == [i \in 1..Len(entries) |-> entries[i].name]

IsError(el) == el.kind = "error"
IsItemError(el) == el.kind = "error" /\ el.tag = "Failed to process"
IsShown(el) == el.kind \in {"image", "download"}
IsDownload(el) == el.kind = "download"

Errors == SelectSeq(out.ui, IsError)
ItemErrors == SelectSeq(out.ui, IsItemError)
Downloads == SelectSeq(out.ui, IsDownload)

\* the ids of the images held by the mappings main received
ResultIds ==
    UNION { {out.results[i].resized_images[k].img :
                 k \in 1..Len(out.results[i].resized_images)} :
            i \in 1..Len(out.results) }

\* C5: a resize result is all or nothing: every mapping that reaches main or the
\* list of process_folder has four entries, a file for which one of the four resizes
\* fails has no mapping at all, and no image outside a complete mapping is shown
C5_AtomicResult ==
    /\ \A i \in 1..Len(out.results) : Len(out.results[i].resized_images) = 4
    /\ \A j \in 1..Len(Batch) :
           (Batch[j].file.decodable /\ Batch[j].file.bad # {}) =>
               \A i \in 1..Len(out.results) : out.results[i].filename # Batch[j].name
    /\ \A n \in 1..Len(out.ui) :
           (IsShown(out.ui[n]) /\ out.heap[out.ui[n].img].via # 0 - 1) =>
               out.ui[n].img \in ResultIds

\* a folder run in which the first resize of a file succeeded and a later one
\* failed (its nearest-neighbour image was made), next to a file with a full result
C5_Witness ==
    /\ FolderRun
    /\ Len(out.results) = 1
    /\ \E j \in 1..Len(Batch) : Batch[j].file = Int32
    /\ \E id \in 1..Len(out.heap) :
           out.heap[id].src = Int32.id /\ out.heap[id].via = 0

\* C7: a non-empty path that is not a directory gives exactly one error message and
\* nothing else: no listing, no file opened, no image made or shown, no download
C7_InvalidPath ==
    (input_method = "Folder Upload" /\ folder_path \in {FilePath, MissingPath}) =>
        /\ Len(Errors) = 1
        /\ Errors[1].tag = "Invalid folder path"
        /\ out.listed = 0
        /\ out.opened = <<>>
        /\ out.heap = <<>>
        /\ out.results = <<>>
        /\ \A n \in 1..Len(out.ui) : ~ IsShown(out.ui[n])
        /\ ~ out.escaped

\* the path of an existing file was typed
C7_Witness ==
    /\ input_method = "Folder Upload" /\ folder_path = FilePath
    /\ Len(Errors) = 1


\* the Image that Image.open makes of a file
DecodedImage(file) ==
    [w |-> file.w, h |-> file.h, src |-> file.id, via |-> 0 - 1, bad |-> file.bad,
     pngOk |-> file.pngOk]

IsOriginal(image) == image.via = 0 - 1
IsDecodable(e) == e.file.decodable

\* the pixel values, by method name, of a mapping held in a heap
ValuesOf(heap, resized_images) ==
    [k \in 1..Len(resized_images) |->
        [name |-> resized_images[k].name, image |-> heap[resized_images[k].img]]]

\* what resize_image returns for the file alone, on a heap that holds nothing else
AloneValues(file, num) ==
    LET r == ResizeImage(<<DecodedImage(file)>>, 1, num)
    IN ValuesOf(r.heap, r.value)

\* C9: resize_image is a pure function of (image, scale_factor): after a run every
\* opened image is as Image.open made it, every returned image is an object of its
\* own (not an input, not shared between entries), and each file's mapping is the
\* one resize_image gives for that file alone, wherever the file stands in the batch
C9_PureFunction ==
    /\ SelectSeq(out.heap, IsOriginal)
         = [j \in 1..Len(SelectSeq(Batch, IsDecodable)) |->
               DecodedImage(SelectSeq(Batch, IsDecodable)[j].file)]
    /\ \A id \in ResultIds : ~ IsOriginal(out.heap[id])
    /\ Cardinality(ResultIds) = 4 * Len(out.results)
    /\ \A i \in 1..Len(out.results) :
           \E j \in 1..Len(Batch) :
               /\ Batch[j].name = out.results[i].filename
               /\ ValuesOf(out.heap, out.results[i].resized_images)
                    = AloneValues(Batch[j].file, scale_factor)

\* a folder run with two results, the second for a file of other content and size
C9_Witness ==
    /\ FolderRun
    /\ Len(out.results) = 2
    /\ Len(Batch) = 2
    /\ Batch[1].file # Batch[2].file

NotResizable(e) == ~ Resizable(e)

\* C10: process_folder attempts exactly the entries whose lowercased name ends with
\* one of the five extensions, in listing order; each attempted entry gives either
\* one pair in the returned list (in listing order) or one error message, and the
\* other entries give neither
C10_FolderFilter ==
    FolderRun =>
        /\ out.listed = 1
        /\ out.opened = NamesOf(Batch)
        /\ [i \in 1..Len(out.results) |-> out.results[i].filename]
             = NamesOf(SelectSeq(Batch, Resizable))
        /\ [i \in 1..Len(ItemErrors) |-> ItemErrors[i].subject]
             = NamesOf(SelectSeq(Batch, NotResizable))
        /\ Len(out.results) + Len(ItemErrors) = Len(Batch)
        /\ \A i \in 1..Len(out.results) : Len(out.results[i].resized_images) = 4

\* a directory holding a file without a supported extension before an upper-case
\* .JPG that is resized
C10_Witness ==
    /\ FolderRun
    /\ Len(listing) = 2
    /\ ~ NameMatches(listing[1].name)
    /\ listing[2].name = <<"B",".","J","P","G">>
    /\ Len(out.results) = 1
    /\ ItemErrors = <<>>


\* the file opens, resizes with every method and can be shown and written as PNG
Sound(e) == e.file.decodable /\ e.file.bad = {} /\ e.file.pngOk

\* exactly one file of the batch cannot be decoded and the others are sound
OneCorruptFile ==
    /\ Cardinality({j \in 1..Len(Batch) : ~ Batch[j].file.decodable}) = 1
    /\ \A j \in 1..Len(Batch) : Batch[j].file.decodable => Sound(Batch[j])

\* what C3 promises of a run
OneErrorOthersDone ==
    /\ ~ out.escaped
    /\ Len(Errors) = 1
    /\ Len(out.results) = Len(Batch) - 1
    /\ \A j \in 1..Len(Batch) :
           Sound(Batch[j]) =>
               \E i \in 1..Len(out.results) : out.results[i].filename = Batch[j].name

\* C3: a batch of N input files with exactly one undecodable file gives N - 1
\* results and exactly one reported error, and the run is not aborted, wherever the
\* bad file stands; a batch is the uploaded file or the matching directory entries
C3_OneBadFile == OneCorruptFile => OneErrorOthersDone

\* C3 for the directory batch alone, where process_folder catches per entry
C3_FolderBatch == (FolderRun /\ OneCorruptFile) => OneErrorOthersDone

\* a directory whose first matching entry is undecodable and whose second is sound
C3_FolderWitness ==
    /\ FolderRun /\ OneCorruptFile /\ Len(Batch) = 2
    /\ ~ Batch[1].file.decodable
    /\ Len(out.results) = 1

\* some step of the run fails: a decode, a resize, a display or a PNG encoding
SomeFailure == \E j \in 1..Len(Batch) : ~ Sound(Batch[j])

\* C4: no failure leaves main: in both variants every failure of decoding, resizing,
\* displaying or encoding ends in an st.error message
C4_NothingEscapes ==
    /\ ~ out.escaped
    /\ SomeFailure => Len(Errors) >= 1

\* C4 for the folder variant alone, whose whole body stands inside try
C4_FolderCaught ==
    input_method = "Folder Upload" =>
        /\ ~ out.escaped
        /\ SomeFailure => Len(Errors) >= 1

\* the method name lowercased, spaces replaced by underscores
MethodSlug(name) ==
    CASE name = <<"N","e","a","r","e","s","t"," ","N","e","i","g","h","b","o","r">>
           -> <<"n","e","a","r","e","s","t","_","n","e","i","g","h","b","o","r">>
      [] name = <<"B","i","l","i","n","e","a","r">> -> <<"b","i","l","i","n","e","a","r">>
      [] name = <<"B","i","c","u","b","i","c">> -> <<"b","i","c","u","b","i","c">>
      [] name = <<"L","a","n","c","z","o","s">> -> <<"l","a","n","c","z","o","s">>
      [] OTHER -> <<>>

\* <basename>_resized_<method>.png
SpecifiedName(basename, method) ==
    basename \o <<"_","r","e","s","i","z","e","d","_">> \o MethodSlug(method)
             \o <<".","p","n","g">>

\* the download names offered for the images of one mapping are pairwise distinct
DistinctPerImage ==
    \A i \in 1..Len(out.results) :
        \A m, n \in 1..Len(Downloads) :
            LET ids == {out.results[i].resized_images[k].img :
                           k \in 1..Len(out.results[i].resized_images)}
            IN (m # n /\ Downloads[m].img \in ids /\ Downloads[n].img \in ids)
                   => Downloads[m].file_name # Downloads[n].file_name

\* C6: in both variants every download is named <basename>_resized_<method>.png,
\* <basename> the name of an input file of the run, and the four names of one image
\* are pairwise distinct
C6_DownloadNames ==
    /\ \A n \in 1..Len(Downloads) :
           \E j \in 1..Len(Batch) :
               Downloads[n].file_name = SpecifiedName(Batch[j].name, Downloads[n].subject)
    /\ DistinctPerImage

\* C6 as the code has it: the folder variant prefixes the directory entry's name
\* (extension included), the upload variant offers resized_<method>.png
C6_NamesAsCoded ==
    /\ \A n \in 1..Len(Downloads) :
           IF input_method = "Folder Upload"
           THEN \E j \in 1..Len(Batch) :
                    Downloads[n].file_name
                        = SpecifiedName(Batch[j].name, Downloads[n].subject)
           ELSE Downloads[n].file_name
                    = <<"r","e","s","i","z","e","d","_">>
                         \o MethodSlug(Downloads[n].subject) \o <<".","p","n","g">>
    /\ DistinctPerImage

====
